---- MODULE Spec2Model ----
(***************************************************************************)
(* claude-bug: frame selection, token budgeting, the profile registry, the *)
(* capture storage, the interactive recorder and the model-aware capture   *)
(* pipeline (frames.ts, context.ts, storage.ts, cli.ts and the source      *)
(* files part_005, part_010 and part_011).                                 *)
(*                                                                         *)
(* Number representation.  The TypeScript code computes in doubles; the    *)
(* model keeps every quantity exact in a fixed unit:                       *)
(*   diff percentages        integer percent (0..100)                      *)
(*   entropyScore            hundredths            (1.0 = 100)             *)
(*   contextBias.*           hundredths            (0.4 = 40)              *)
(*   reasoningValue,                                                       *)
(*   dropPriority            units of 1/100000     (1.0 = One)             *)
(*   utilization             the exact fraction num/den (percent)          *)
(*   timestamp               tenths of a second                            *)
(***************************************************************************)
EXTENDS Integers, Sequences, FiniteSets, TLC

(* ------------------------------ bounds --------------------------------- *)
MaxFrames == 6
MaxTarget == 4
MaxCaptureFrames == 5

(* ----------------------------- variables -------------------------------- *)
VARIABLES
    pc,               \* position of the running operation
    MODEL_PROFILES,   \* context.ts: the global profile registry
    options,          \* ModelAwareCaptureOptions of the running request
    profile,          \* the ModelProfile in use
    frames,           \* ExtractedFrame[] produced by extractFrames
    diffs,            \* the frame images as calculateFrameDiff finds them: the
                      \* percentage of differing pixels of frames[i-1], frames[i]
                      \* and the frames whose image cannot be decoded
    targetCount,      \* targetCount argument of the selectors
    diffThreshold,    \* config.diffThreshold
    selection,        \* FrameSelectionResult of selectKeyFrames
    context,          \* CaptureContext (token estimates, line counts)
    allocation,       \* BudgetAllocation
    keyFrames,        \* ScoredFrame[] returned by selectModelAlignedFrames
    currentFrames,    \* ScoredFrame[] being shrunk (capture.keyFrames)
    lastInput,        \* frame list passed to the last dropFramesForBudget call
    dropTargets,      \* targetCount of every dropFramesForBudget call so far
    promptTokens,     \* estimatePromptTokens(suggestedPrompt)
    utilization,      \* TokenUtilization computed first (stage 8)
    finalUtilization, \* TokenUtilization after shrinking
    validation,       \* result of the last validateBudget call
    attempts,         \* shrink-loop counter
    capture,          \* BugCapture fields the pipeline updates
    storage,          \* storage.ts: metadata index (captures.json) and the
                      \* capture directories on disk
    history,          \* bookkeeping for the properties: what was saved as
                      \* temporary, viewed, and removed by the last cleanup
    recording         \* recorder.ts: the closure of startInteractiveRecording,
                      \* the ffmpeg child process and the promises of stop()

vars == <<pc, MODEL_PROFILES, options, profile, frames, diffs, targetCount,
          diffThreshold, selection, context, allocation, keyFrames,
          currentFrames, lastInput, dropTargets, promptTokens, utilization,
          finalUtilization, validation, attempts, capture, storage, history,
          recording>>

(* ------------------------------ helpers --------------------------------- *)
Min(a, b) == IF a <= b THEN a ELSE b

Max(a, b) == IF a >= b THEN a ELSE b

Min3(a, b, c) == Min(a, Min(b, c))

\* Math.ceil(num / den) for den > 0
CeilDiv(num, den) == -((-num) \div den)

\* Array.prototype.slice(start, end): 0-based, negative arguments count from
\* the end, out-of-range arguments are clamped.
JsSlice(s, start, end) ==
    LET n    == Len(s)
        from == IF start < 0 THEN Max(n + start, 0) ELSE Min(start, n)
        to   == IF end < 0 THEN Max(n + end, 0) ELSE Min(end, n)
    IN  SubSeq(s, from + 1, to)

\* Array.prototype.sort with comparator (a, b) => key(a) - key(b); the sort is
\* stable.  keys[i] is the sort key of s[i].  (The arguments are bound to
\* their values once, so that they are not re-evaluated at every use.)
StableSortAsc(s, keys) ==
    LET Sorted(vs, vk) ==
            LET n == Len(vs)
                Before(j, i) == vk[j] < vk[i] \/ (vk[j] = vk[i] /\ j < i)
                Rank(i) == 1 + Cardinality({j \in 1..n : Before(j, i)})
            IN  [p \in 1..n |-> vs[CHOOSE i \in 1..n : Rank(i) = p]]
    IN  CHOOSE r \in {Sorted(vs, vk) : vs \in {s}, vk \in {keys}} : TRUE

\* Array.prototype.filter
RECURSIVE JsFilter(_, _)
JsFilter(s, keep) ==
    IF s = <<>> THEN <<>>
    ELSE IF keep[1] THEN <<Head(s)>> \o JsFilter(Tail(s), Tail(keep))
    ELSE JsFilter(Tail(s), Tail(keep))

RECURSIVE SumSeq(_)
SumSeq(s) == IF s = <<>> THEN 0 ELSE Head(s) + SumSeq(Tail(s))

Indices(fs) == [i \in 1..Len(fs) |-> fs[i].index]

IndexSet(fs) == {fs[i].index : i \in 1..Len(fs)}

(* --------------------------- frame extraction --------------------------- *)
ExtractFps == 2

\* frames.ts extractFrames: frame i has index i, its own file and the
\* timestamp round(((i + 0.5) / fps) * 10) / 10, kept here in tenths.
extractFrames(n) ==
    [k \in 1..n |->
        [index     |-> k - 1,
         path      |-> (IF k < 10 THEN "frame_000" ELSE "frame_00")
                           \o ToString(k) \o ".png",
         timestamp |-> (10 * (2 * (k - 1) + 1) + ExtractFps) \div (2 * ExtractFps)]]

DiffValues == {0, 10, 30}

\* variant of calculateFrameDiff whose catch block reports no difference
calculateFrameDiffFailClosed(d, i) ==
    IF (i - 1) \in d.undecodable \/ i \in d.undecodable THEN 0
    ELSE d.percent[i + 1]

\* part_005 calculateFrameDiff applied to frames[i-1], frames[i] (i is the
\* 0-based index of the later frame): Jimp.read throws on an image it cannot
\* decode and the catch block returns 100
calculateFrameDiff(d, i) ==
    IF (i - 1) \in d.undecodable \/ i \in d.undecodable THEN 100
    ELSE d.percent[i + 1]

\* no pixel percentage exists for a pair that does not decode, nor for frame 0
PairDecodes(u, i) == i > 0 /\ (i - 1) \notin u /\ i \notin u

DiffInputs(n) ==
    UNION {{[percent |-> p, undecodable |-> u] :
               p \in {q \in [1..n -> DiffValues] :
                         \A i \in 0..(n - 1) : ~PairDecodes(u, i) => q[i + 1] = 0}} :
           u \in SUBSET (0..(n - 1))}

\* n frames that all decode and show no change
IdenticalFrames(n) == [percent |-> [i \in 1..n |-> 0], undecodable |-> {}]

\* frame images met by the pipeline: every pair shows no change or a large
\* one (calculateEntropyScore caps the change bonus at 30%, so a pair that
\* does not decode scores like a large change)
CaptureDiffInputs(n) ==
    {[percent |-> p, undecodable |-> {}] :
        p \in {q \in [1..n -> {0, 30}] : n >= 1 => q[1] = 0}}

(* ---------------------- threshold selector (v1) ------------------------- *)
DefaultTargetKeyFrames == 6

DiffThresholds == {3, 20}

\* part_005 generateSelectionReason (diffScore.toFixed(1) of an integer
\* percentage prints one zero decimal)
generateSelectionReason(diffScore, isFirst, isLast) ==
    IF isFirst THEN "Start of capture"
    ELSE IF isLast THEN "End of capture"
    ELSE IF diffScore >= 20
         THEN ToString(diffScore) \o ".0% visual change - major UI update"
    ELSE IF diffScore >= 10
         THEN ToString(diffScore) \o ".0% visual change - significant change"
    ELSE IF diffScore >= 5
         THEN ToString(diffScore) \o ".0% visual change - content update"
    ELSE ToString(diffScore) \o ".0% visual change - minor change"

KeyFrame(frame, diffScore, reason) ==
    [index |-> frame.index, path |-> frame.path, timestamp |-> frame.timestamp,
     diffScore |-> diffScore, reason |-> reason,
     optimizedPath |-> "", tokenEstimate |-> 0]

\* variant of UseAllFrames that numbers the key frames by 1-based position
\* instead of copying frame.index
UseAllFramesOneBased(fs) ==
    [i \in 1..Len(fs) |->
        KeyFrame([fs[i] EXCEPT !.index = i], 0,
                 IF i = 1 THEN "Start of capture"
                 ELSE IF i = Len(fs) THEN "End of capture"
                 ELSE "Selected frame")]

\* selectKeyFrames, branch frames.length <= targetCount: every frame is used
UseAllFrames(fs) ==
    [i \in 1..Len(fs) |->
        KeyFrame(fs[i], 0,
                 IF i = 1 THEN "Start of capture"
                 ELSE IF i = Len(fs) THEN "End of capture"
                 ELSE "Selected frame")]

\* selectKeyFrames: one FrameCandidate per frame
FrameCandidates(fs, d) ==
    [i \in 1..Len(fs) |->
        [frame     |-> fs[i],
         diffScore |-> IF i > 1 THEN calculateFrameDiff(d, i - 1) ELSE 0,
         isFirst   |-> i = 1,
         isLast    |-> i = Len(fs)]]

\* selectKeyFrames: interior candidates at or above the threshold, largest
\* diff first
MiddleCandidates(candidates, th) ==
    LET interior == JsSlice(candidates, 1, -1)
        passing  == JsFilter(interior,
                             [i \in 1..Len(interior) |-> interior[i].diffScore >= th])
    IN  StableSortAsc(passing, [i \in 1..Len(passing) |-> -passing[i].diffScore])

\* selectKeyFrames: the evenly spaced fill loop, iterations i..remaining
RECURSIVE EvenlySpacedFill(_, _, _, _, _)
EvenlySpacedFill(selected, candidates, step, i, remaining) ==
    IF i > remaining THEN selected
    ELSE LET idx == i * step
             n   == Len(candidates)
         IN  IF idx > 0 /\ idx < n - 1
                /\ idx \notin {selected[k].frame.index : k \in 1..Len(selected)}
             THEN EvenlySpacedFill(Append(selected, candidates[idx + 1]),
                                   candidates, step, i + 1, remaining)
             ELSE EvenlySpacedFill(selected, candidates, step, i + 1, remaining)

\* variant of FillStep that divides by the number of frames still wanted
FillStepPerFrame(n, remaining) == n \div remaining

\* selectKeyFrames: const step = Math.floor(frames.length / (remaining + 1))
FillStep(n, remaining) == n \div (remaining + 1)

\* selectKeyFrames: the selected candidates before the chronological sort
SelectedCandidates(fs, d, tc, th) ==
    LET candidates == FrameCandidates(fs, d)
        middle     == MiddleCandidates(candidates, th)
        toSelect   == Min(Len(middle), tc - 2)
        selected   == <<candidates[1], candidates[Len(candidates)]>>
                          \o JsSlice(middle, 0, toSelect)
    IN  IF Len(selected) < tc
        THEN LET remaining == tc - Len(selected)
                 step      == FillStep(Len(fs), remaining)
             IN  EvenlySpacedFill(selected, candidates, step, 1, remaining)
        ELSE selected

selectKeyFrames(fs, d, tc, th) ==
    IF Len(fs) = 0
    THEN [keyFrames |-> <<>>, totalExtracted |-> 0, selectionReasons |-> <<>>]
    ELSE LET kf ==
               IF Len(fs) <= tc THEN UseAllFrames(fs)
               ELSE LET unsorted == SelectedCandidates(fs, d, tc, th)
                        sorted   == StableSortAsc(unsorted,
                                       [i \in 1..Len(unsorted) |-> unsorted[i].frame.index])
                    IN  [i \in 1..Len(sorted) |->
                            KeyFrame(sorted[i].frame, sorted[i].diffScore,
                                     generateSelectionReason(sorted[i].diffScore,
                                         sorted[i].isFirst, sorted[i].isLast))]
         IN  [keyFrames |-> kf,
              totalExtracted |-> Len(fs),
              selectionReasons |-> [i \in 1..Len(kf) |-> kf[i].reason]]

(* --------------------------- model profiles ----------------------------- *)
ContextBias(visual, code, execution) ==
    [visual |-> visual, code |-> code, execution |-> execution]

PromptStyle(verbosity, diffCorrelation, uncertainty, causalFocusLevel) ==
    [verbosity                  |-> verbosity,
     includeTimelineRefs        |-> TRUE,
     includeDiffCorrelation     |-> diffCorrelation,
     includeUncertaintyGuidance |-> uncertainty,
     causalFocusLevel           |-> causalFocusLevel]

Profile(name, maxTokens, preferredFrames, maxFrames, contextBias, promptStyle) ==
    [name               |-> name,
     maxTokens          |-> maxTokens,
     imageTokenEstimate |-> 1200,
     preferredFrames    |-> preferredFrames,
     maxFrames          |-> maxFrames,
     contextBias        |-> contextBias,
     promptStyle        |-> promptStyle]

\* context.ts MODEL_PROFILES as shipped
BuiltinProfiles ==
    [n \in {"claude-code", "claude-sonnet", "claude-opus", "claude-haiku"} |->
        CASE n = "claude-code" ->
                Profile(n, 100000, 6, 10, ContextBias(40, 40, 20),
                        PromptStyle("minimal", TRUE, TRUE, "high"))
          [] n = "claude-sonnet" ->
                Profile(n, 200000, 8, 12, ContextBias(50, 30, 20),
                        PromptStyle("standard", TRUE, TRUE, "high"))
          [] n = "claude-opus" ->
                Profile(n, 200000, 10, 15, ContextBias(45, 35, 20),
                        PromptStyle("detailed", TRUE, TRUE, "high"))
          [] n = "claude-haiku" ->
                Profile(n, 200000, 4, 6, ContextBias(50, 30, 20),
                        PromptStyle("minimal", FALSE, FALSE, "medium"))]

ModelNames == DOMAIN BuiltinProfiles

(* --------------------------- profile registry --------------------------- *)
\* Names are strings; SubSeq, Head and Tail take them apart character by
\* character.
UpperCaseLetters == "ABCDEFGHIJKLMNOPQRSTUVWXYZ"

LowerCaseLetters == "abcdefghijklmnopqrstuvwxyz"

CharAt(s, k) == SubSeq(s, k, k)

\* String.prototype.toLowerCase on one character (ASCII)
LowerCaseChar(c) ==
    LET at == {k \in 1..Len(UpperCaseLetters) : CharAt(UpperCaseLetters, k) = c}
    IN  IF at = {} THEN c ELSE CharAt(LowerCaseLetters, CHOOSE k \in at : TRUE)

RECURSIVE toLowerCase(_)
toLowerCase(s) ==
    IF s = "" THEN "" ELSE LowerCaseChar(Head(s)) \o toLowerCase(Tail(s))

\* the character class [a-z]
IsLowerCaseLetter(c) ==
    \E k \in 1..Len(LowerCaseLetters) : CharAt(LowerCaseLetters, k) = c

\* String.prototype.replace(/[^a-z]/g, '-')
RECURSIVE ReplaceNonLetters(_)
ReplaceNonLetters(s) ==
    IF s = "" THEN ""
    ELSE (IF IsLowerCaseLetter(Head(s)) THEN Head(s) ELSE "-")
             \o ReplaceNonLetters(Tail(s))

\* getModelProfile: const normalized = name.toLowerCase().replace(/[^a-z]/g, '-')
NormalizedName(name) == ReplaceNonLetters(toLowerCase(name))

\* MODEL_PROFILES is an object literal: a key it does not own is looked up in
\* Object.prototype, whose properties are these
ObjectPrototypeKeys ==
    {"constructor", "hasOwnProperty", "isPrototypeOf", "propertyIsEnumerable",
     "toLocaleString", "toString", "valueOf", "__proto__", "__defineGetter__",
     "__defineSetter__", "__lookupGetter__", "__lookupSetter__"}

Undefined == [type |-> "undefined"]

\* what Object.prototype holds under one of its keys (the functions are not
\* told apart beyond their name)
InheritedProperty(key) ==
    IF key = "__proto__" THEN [type |-> "object", name |-> "Object.prototype"]
    ELSE [type |-> "function", name |-> key]

\* MODEL_PROFILES[key]
PropertyOf(registry, key) ==
    IF key \in DOMAIN registry THEN registry[key]
    ELSE IF key \in ObjectPrototypeKeys THEN InheritedProperty(key)
    ELSE Undefined

\* context.ts getModelProfile: MODEL_PROFILES[normalized] ?? MODEL_PROFILES['claude-code']
getModelProfile(registry, name) ==
    LET found == PropertyOf(registry, NormalizedName(name))
    IN  IF found # Undefined THEN found ELSE PropertyOf(registry, "claude-code")

\* the registry key of the object getModelProfile returns, for a name that
\* resolves to an own property or to the default
ResolvedName(registry, name) ==
    IF NormalizedName(name) \in DOMAIN registry THEN NormalizedName(name)
    ELSE "claude-code"

\* context.ts registerModelProfile: MODEL_PROFILES[profile.name.toLowerCase()] = profile
registerModelProfile(registry, p) ==
    LET key == toLowerCase(p.name)
    IN  [k \in DOMAIN registry \cup {key} |-> IF k = key THEN p ELSE registry[k]]

(* ------------------- entropy / reasoning scorer (v2) -------------------- *)
One == 100000

\* variant of InMiddleBand without the lower limit
InMiddleBandNoLowerLimit(index, totalFrames) == 10 * index < 6 * totalFrames

\* calculateEntropyScore: position > 0.4 && position < 0.6, for
\* position = frame.index / totalFrames
InMiddleBand(index, totalFrames) ==
    10 * index > 4 * totalFrames /\ 10 * index < 6 * totalFrames

\* calculateEntropyScore: the three temporal position bonuses, in hundredths
PositionBonus(index, totalFrames) ==
    LET early  == IF 10 * index < totalFrames THEN 20 ELSE 0
        late   == IF 10 * index > 9 * totalFrames THEN 20 ELSE 0
        middle == IF InMiddleBand(index, totalFrames) THEN 10 ELSE 0
    IN  early + late + middle

\* calculateEntropyScore: the score before Math.min(score, 1.0), in
\* hundredths.  hasPrev tells whether prevFrame is non-null.
EntropyBeforeClamp(frame, hasPrev, d, totalFrames) ==
    LET base   == 50
        change == IF hasPrev
                  THEN Min(calculateFrameDiff(d, frame.index), 30) ELSE 0
    IN  base + PositionBonus(frame.index, totalFrames) + change

\* frames.ts calculateEntropyScore, in hundredths
calculateEntropyScore(frame, hasPrev, d, totalFrames) ==
    Min(EntropyBeforeClamp(frame, hasPrev, d, totalFrames), 100)

\* frames.ts calculateReasoningValue, in units of 1/One
calculateReasoningValue(entropyScore, position, prof) ==
    LET boost == IF prof.promptStyle.causalFocusLevel = "high" /\ position = "middle"
                 THEN 12 ELSE 10
        value == entropyScore * boost * (50 + prof.contextBias.visual)
    IN  Min(value, One)

(* ----------------------- model-aware selector (v2) ---------------------- *)
\* selectModelAlignedFrames: the scoring loop
ScoreAllFrames(fs, d, prof) ==
    [k \in 1..Len(fs) |->
        LET entropyScore   == calculateEntropyScore(fs[k], k > 1, d, Len(fs))
            position       == IF k = 1 THEN "start"
                              ELSE IF k = Len(fs) THEN "end" ELSE "middle"
            reasoningValue == calculateReasoningValue(entropyScore, position, prof)
        IN  [index          |-> fs[k].index,
             path           |-> fs[k].path,
             timestamp      |-> fs[k].timestamp,
             diffScore      |-> 0,
             reason         |-> "",
             optimizedPath  |-> "",
             tokenEstimate  |-> prof.imageTokenEstimate,
             entropyScore   |-> entropyScore,
             reasoningValue |-> reasoningValue,
             dropPriority   |-> One - reasoningValue]]

\* variant of MarkAnchors that leaves the last frame's computed dropPriority
MarkAnchorsFirstOnly(scored) ==
    LET n  == Len(scored)
        s1 == [scored EXCEPT ![1].reason = "Start of capture - baseline state"]
        s2 == [s1 EXCEPT ![1].dropPriority = 0]
    IN  [s2 EXCEPT ![n].reason = "End of capture - final failure state"]

\* selectModelAlignedFrames: the anchors alias scored[0] and scored[last], so
\* the assignments change the scored array itself (in statement order)
MarkAnchors(scored) ==
    LET n  == Len(scored)
        s1 == [scored EXCEPT ![1].reason = "Start of capture - baseline state"]
        s2 == [s1 EXCEPT ![1].dropPriority = 0]
        s3 == [s2 EXCEPT ![n].reason = "End of capture - final failure state"]
    IN  [s3 EXCEPT ![n].dropPriority = 0]

\* selectModelAlignedFrames: reason given to a selected candidate
CandidateReason(frame) ==
    IF frame.reasoningValue > 70000
    THEN "High-entropy transition - " \o ToString(frame.entropyScore)
             \o "% information density"
    ELSE IF frame.entropyScore > 50
    THEN "State change detected - temporal divergence point"
    ELSE "Coverage frame - maintains temporal continuity"

\* selectModelAlignedFrames: top interior frames by reasoningValue
TopCandidates(scored, tc) ==
    LET interior == JsSlice(scored, 1, -1)
        ranked   == StableSortAsc(interior,
                        [i \in 1..Len(interior) |-> -interior[i].reasoningValue])
        top      == JsSlice(ranked, 0, tc - 2)
    IN  [i \in 1..Len(top) |-> [top[i] EXCEPT !.reason = CandidateReason(top[i])]]

\* variant of SortByIndex that leaves the array as it is
SortByIndexSkipped(fs) == fs

\* .sort((a, b) => a.index - b.index)
SortByIndex(fs) == StableSortAsc(fs, Indices(fs))

\* variant of AlreadySelected that finds no frame in the result
AlreadySelectedNever(result, midIndex) == FALSE

\* ensureTemporalCoverage: result.includes(fillFrame), for the frame of
\* allFrames whose index is midIndex
AlreadySelected(result, midIndex) == midIndex \in IndexSet(result)

\* ensureTemporalCoverage: the gap loop from position i (0-based) on
RECURSIVE CoverageLoop(_, _, _, _)
CoverageLoop(result, allFrames, maxCount, i) ==
    IF ~(i < Len(result) - 1 /\ Len(result) < maxCount) THEN result
    ELSE LET gap      == result[i + 2].index - result[i + 1].index
             midIndex == (result[i + 1].index + result[i + 2].index) \div 2
             found    == {k \in 1..Len(allFrames) : allFrames[k].index = midIndex}
         IN  IF 4 * gap > Len(allFrames)
                /\ found # {}
                /\ ~AlreadySelected(result, midIndex)
             THEN LET k0        == CHOOSE k \in found : \A j \in found : k <= j
                      fillFrame == [allFrames[k0] EXCEPT
                                       !.reason = "Coverage frame - filling temporal gap"]
                      spliced   == SubSeq(result, 1, i + 1) \o <<fillFrame>>
                                       \o SubSeq(result, i + 2, Len(result))
                  IN  CoverageLoop(spliced, allFrames, maxCount, i + 1)
             ELSE CoverageLoop(result, allFrames, maxCount, i + 1)

ensureTemporalCoverage(selected, allFrames, maxCount) ==
    SortByIndex(CoverageLoop(selected, allFrames, maxCount, 0))

\* selectModelAlignedFrames: anchors plus candidates in chronological order
AnchorsAndCandidates(scored, tc) ==
    SortByIndex(<<scored[1]>> \o TopCandidates(scored, tc) \o <<scored[Len(scored)]>>)

\* frames is non-empty (the callers throw on an empty extraction)
selectModelAlignedFrames(fs, d, prof, tc) ==
    LET scored   == MarkAnchors(ScoreAllFrames(fs, d, prof))
        selected == AnchorsAndCandidates(scored, tc)
    IN  ensureTemporalCoverage(selected, scored, tc)

(* ------------------------- budget-driven evictor ------------------------ *)
\* variant of KeptByPriority that keeps the frames at the end of the sorted list
KeptByPriorityFromEnd(sorted, tc) == JsSlice(sorted, Len(sorted) - tc, Len(sorted))

\* dropFramesForBudget: const kept = sorted.slice(0, targetCount)
KeptByPriority(sorted, tc) == JsSlice(sorted, 0, tc)

dropFramesForBudget(fs, tc) ==
    IF Len(fs) <= tc THEN fs
    ELSE CHOOSE kept \in
            {SortByIndex(KeptByPriority(sorted, tc)) :
                sorted \in {StableSortAsc(fs, [i \in 1..Len(fs) |-> fs[i].dropPriority])}} :
            TRUE

(* ----------------------------- token budget ----------------------------- *)
\* variant of CappedFrameCount that ignores the number of extracted frames
CappedFrameCountUnbounded(budgetCount, preferredFrames, availableFrames) ==
    Min(budgetCount, preferredFrames)

\* calculateBudgetAllocation: Math.min(count, preferredFrames, availableFrames)
CappedFrameCount(budgetCount, preferredFrames, availableFrames) ==
    Min3(budgetCount, preferredFrames, availableFrames)

\* variant of TriesReducedQuality that does not look at the extracted frames
TriesReducedQualityBelowPreferred(frameCount, preferredFrames, availableFrames) ==
    frameCount < preferredFrames

\* calculateBudgetAllocation: if (frameCount < profile.preferredFrames &&
\* frameCount < availableFrames)
TriesReducedQuality(frameCount, preferredFrames, availableFrames) ==
    frameCount < preferredFrames /\ frameCount < availableFrames

\* part_011 calculateBudgetAllocation.  workingBudget * 100 is kept as W100 so
\* that 0.95 * maxTokens - 500 stays exact; the biases are hundredths.
calculateBudgetAllocation(prof, availableFrames) ==
    LET W100              == 95 * prof.maxTokens - 50000
        visual            == prof.contextBias.visual
        baseImageTokens   == prof.imageTokenEstimate
        baseCount         == (W100 * visual) \div (10000 * baseImageTokens)
        frameCount85      == CappedFrameCount(baseCount, prof.preferredFrames,
                                              availableFrames)
        reducedFrameCount == (W100 * visual) \div (8500 * baseImageTokens)
        reduce            == /\ TriesReducedQuality(frameCount85, prof.preferredFrames,
                                                    availableFrames)
                             /\ reducedFrameCount > frameCount85
        quality           == IF reduce THEN 75 ELSE 85
        frameCount        == IF reduce
                             THEN CappedFrameCount(reducedFrameCount,
                                                   prof.preferredFrames,
                                                   availableFrames)
                             ELSE frameCount85
        terminalLines     == (W100 * prof.contextBias.execution) \div 40000
        gitDiffLines      == (W100 * prof.contextBias.code) \div 40000
        qualityNote       == IF quality < 85
                             THEN <<"Reduced image quality to " \o ToString(quality)
                                     \o "% to fit " \o ToString(frameCount) \o " frames">>
                             ELSE <<>>
        limitNote         == IF frameCount < prof.preferredFrames
                             THEN <<"Limited to " \o ToString(frameCount)
                                     \o " frames (preferred: "
                                     \o ToString(prof.preferredFrames) \o ")">>
                             ELSE <<>>
    IN  [frameCount      |-> frameCount,
         frameResolution |-> [width |-> 1024, height |-> 576],
         frameQuality    |-> quality,
         terminalLines   |-> Min(terminalLines, 100),
         gitDiffLines    |-> Min(gitDiffLines, 150),
         includeCommits  |-> W100 * prof.contextBias.code > 2000000,
         includeFullDiff |-> W100 * prof.contextBias.code > 5000000,
         adjustments     |-> qualityNote \o limitNote]

\* part_011 calculateTokenUtilization.  utilization is the exact fraction
\* num / den of (total / maxTokens) * 100.
calculateTokenUtilization(prof, fs, ctx, prompt) ==
    LET visualTokens    == SumSeq([i \in 1..Len(fs) |-> fs[i].tokenEstimate])
        textTokens      == ctx.terminal.tokenEstimate + ctx.git.tokenEstimate
        structureTokens == 100
        total           == visualTokens + textTokens + structureTokens + prompt
    IN  [visual      |-> visualTokens,
         text        |-> textTokens,
         prompt      |-> prompt,
         total       |-> total,
         budget      |-> prof.maxTokens,
         utilization |-> [num |-> total * 100, den |-> prof.maxTokens],
         breakdown   |->
            [frames          |-> [count |-> Len(fs), tokens |-> visualTokens],
             terminalContext |-> [lines  |-> ctx.terminal.lines,
                                  tokens |-> ctx.terminal.tokenEstimate],
             gitContext      |-> [diffLines |-> ctx.git.diffLines,
                                  tokens    |-> ctx.git.tokenEstimate],
             reportStructure |-> structureTokens,
             suggestedPrompt |-> prompt]]

\* u.utilization <= 95 on the exact fraction (den = maxTokens > 0)
WithinLimit(u) == u.utilization.num <= 95 * u.utilization.den

\* overage * 100, for overage = total - budget * 0.95
Overage100(u) == 100 * u.total - 95 * u.budget

\* Math.ceil(overage / (visual / count)); a zero divisor gives Infinity
FramesToDrop(u, count) ==
    IF u.visual = 0 THEN "Infinity"
    ELSE ToString(CeilDiv(Overage100(u) * count, 100 * u.visual))

\* variant of SuggestsFrameRemoval with the limit one frame higher
SuggestsFrameRemovalAboveFive(u) == u.breakdown.frames.count > 5

\* validateBudget: if (utilization.breakdown.frames.count > 4)
SuggestsFrameRemoval(u) == u.breakdown.frames.count > 4

\* variant of SuggestsTextTruncation that looks at the terminal context alone
SuggestsTextTruncationTerminalOnly(u) == u.breakdown.terminalContext.tokens > 500

\* validateBudget: if (utilization.text > 500)
SuggestsTextTruncation(u) == u.text > 500

\* part_011 validateBudget
validateBudget(u) ==
    IF WithinLimit(u) THEN [valid |-> TRUE, suggestions |-> <<>>]
    ELSE LET frameNote ==
                 IF SuggestsFrameRemoval(u)
                 THEN <<"Remove " \o FramesToDrop(u, u.breakdown.frames.count)
                         \o " lowest-entropy frames">>
                 ELSE <<>>
             textNote ==
                 IF SuggestsTextTruncation(u)
                 THEN <<"Truncate terminal context to error lines only">>
                 ELSE <<>>
             diffNote ==
                 IF u.breakdown.gitContext.diffLines > 50
                 THEN <<"Use diff summary instead of full diff">>
                 ELSE <<>>
         IN  [valid |-> FALSE, suggestions |-> frameNote \o textNote \o diffNote]

(* ---------------------------- capture storage --------------------------- *)
\* storage.ts keeps one directory per capture and a metadata index,
\* captures.json, newest entry first.  Capture ids are uuids: here they are
\* numbered in the order they are created, nextId being the next fresh one.
\* All ids have the same length, so c.id.startsWith(id) on a full id is c.id = id.
IndexLimit == 100

EmptyStorage == [captures |-> <<>>, dirs |-> {}, nextId |-> 1]

\* saves counts the captures saved since the run began
NoHistory == [temp |-> {}, viewed |-> {}, expired |-> {}, cleanedTemp |-> {}, saves |-> 0, deletes |-> 0]

CaptureMetadata(id, isTemp) == [id |-> id, isTemp |-> isTemp, viewedAt |-> FALSE]

\* Array.findIndex: the first position holding the id, 0 for -1
FindIndex(captures, id) ==
    LET hits == {i \in 1..Len(captures) : captures[i].id = id}
    IN  IF hits = {} THEN 0 ELSE CHOOSE i \in hits : \A j \in hits : i <= j

saveCapture(st, id, isTemp) ==
    LET unshifted == <<CaptureMetadata(id, isTemp)>> \o st.captures
        kept == IF Len(unshifted) > IndexLimit THEN JsSlice(unshifted, 0, IndexLimit)
                ELSE unshifted
    IN  [captures |-> kept, dirs |-> st.dirs \cup {id}, nextId |-> Max(st.nextId, id + 1)]

deleteCapture(st, id) ==
    LET captureIndex == FindIndex(st.captures, id)
    IN  IF captureIndex = 0 THEN st
        ELSE [st EXCEPT !.dirs = @ \ {st.captures[captureIndex].id},
                        !.captures = SubSeq(@, 1, captureIndex - 1)
                                        \o SubSeq(@, captureIndex + 1, Len(@))]

\* the for-loops of the two cleanup passes: deleteCapture on each id in turn
RECURSIVE DeleteEach(_, _)
DeleteEach(st, ids) ==
    IF ids = <<>> THEN st ELSE DeleteEach(deleteCapture(st, Head(ids)), Tail(ids))

IdsOf(captures) == [i \in 1..Len(captures) |-> captures[i].id]

\* Captures are saved in the order of their timestamps, so the entries older
\* than ttlDays are the n oldest of the index for some n; n = 0 when nothing
\* has expired or ttlDays is 0.
ExpiredCaptures(st, n) == JsSlice(st.captures, Len(st.captures) - n, Len(st.captures))

deleteExpiredCaptures(st, n) ==
    LET ids == IdsOf(ExpiredCaptures(st, n))
    IN  [storage |-> DeleteEach(st, ids), ids |-> {ids[i] : i \in 1..Len(ids)}]

markCaptureViewed(st, id) ==
    LET found == FindIndex(st.captures, id)
    IN  IF found # 0 /\ st.captures[found].isTemp /\ ~st.captures[found].viewedAt
        THEN [st EXCEPT !.captures[found].viewedAt = TRUE]
        ELSE st

IsViewedTemp(c) == c.isTemp /\ c.viewedAt

deleteViewedTempCaptures(st) ==
    LET ids == IdsOf(SelectSeq(st.captures, IsViewedTemp))
    IN  [storage |-> DeleteEach(st, ids), ids |-> {ids[i] : i \in 1..Len(ids)}]

runCleanup(st, n) ==
    LET expiredResult == deleteExpiredCaptures(st, n)
        tempResult == deleteViewedTempCaptures(expiredResult.storage)
    IN  [storage |-> tempResult.storage, expired |-> expiredResult.ids, temp |-> tempResult.ids]

(* ------------------------- values before any run ------------------------ *)
EmptySelection == [keyFrames |-> <<>>, totalExtracted |-> 0, selectionReasons |-> <<>>]

EmptyContext ==
    [terminal |-> [lines |-> 0, tokenEstimate |-> 0],
     git      |-> [diffLines |-> 0, tokenEstimate |-> 0]]

NoOptions == [model |-> "claude-code", overrideBudget |-> 0]

NoCapture ==
    [duration  |-> 0,
     keyFrames |-> <<>>,
     metrics   |-> [totalFrames |-> 0, keyFrames |-> 0, tokenEstimate |-> 0],
     promptFrameCount |-> 0,
     reportUtilization |-> 0,
     saved     |-> FALSE]

\* RecordingResult of a promise that has not been resolved
NoResult == [success |-> FALSE, duration |-> 0, error |-> ""]

\* no interactive recording was started
NoRecording ==
    [ffmpeg    |-> "none",
     resolved  |-> FALSE,
     listeners |-> {},
     timers    |-> {},
     stdin     |-> "none",
     quit      |-> FALSE,
     killed    |-> FALSE,
     promises  |-> <<>>]

\* everything the selectors do not touch
SelectorFrame ==
    /\ MODEL_PROFILES = BuiltinProfiles
    /\ options = NoOptions
    /\ context = EmptyContext
    /\ promptTokens = 0
    /\ attempts = 0
    /\ capture = NoCapture
    /\ storage = EmptyStorage
    /\ history = NoHistory

(* ============================ selector harness =========================== *)
(* Applies the two selectors and the evictor to every bounded input.        *)
TargetCounts == 0..MaxTarget

SelInit ==
    /\ pc = "input"
    /\ recording = NoRecording
    /\ \E n \in 1..MaxFrames :
          /\ frames = extractFrames(n)
          /\ diffs \in DiffInputs(n)
    /\ targetCount \in TargetCounts
    /\ diffThreshold \in DiffThresholds
    /\ profile \in {BuiltinProfiles[m] : m \in ModelNames}
    /\ selection = EmptySelection
    /\ keyFrames = <<>>
    /\ currentFrames = <<>>
    /\ lastInput = <<>>
    /\ dropTargets = <<>>
    /\ allocation = calculateBudgetAllocation(profile, 0)
    /\ utilization = calculateTokenUtilization(profile, <<>>, EmptyContext, 0)
    /\ finalUtilization = utilization
    /\ validation = validateBudget(utilization)
    /\ SelectorFrame

SelectKeyFrames ==
    /\ pc = "input"
    /\ selection' = selectKeyFrames(frames, diffs, targetCount, diffThreshold)
    /\ pc' = "threshold-selected"
    /\ UNCHANGED <<MODEL_PROFILES, options, profile, frames, diffs, targetCount,
                   diffThreshold, context, allocation, keyFrames, currentFrames,
                   lastInput, dropTargets, promptTokens, utilization,
                   finalUtilization, validation, attempts, capture,
                   storage, history, recording>>

SelectModelAlignedFrames ==
    /\ pc = "input"
    /\ keyFrames' = selectModelAlignedFrames(frames, diffs, profile, targetCount)
    /\ currentFrames' = keyFrames'
    /\ pc' = "model-selected"
    /\ UNCHANGED <<MODEL_PROFILES, options, profile, frames, diffs, targetCount,
                   diffThreshold, selection, context, allocation, lastInput,
                   dropTargets, promptTokens, utilization, finalUtilization,
                   validation, attempts, capture,
                   storage, history, recording>>

\* one eviction call on the current frame list
DropFramesForBudget ==
    /\ pc \in {"model-selected", "dropped"}
    /\ \E t \in 0..(Len(currentFrames) - 1) :
          /\ lastInput' = currentFrames
          /\ dropTargets' = Append(dropTargets, t)
          /\ currentFrames' = dropFramesForBudget(currentFrames, t)
    /\ pc' = "dropped"
    /\ UNCHANGED <<MODEL_PROFILES, options, profile, frames, diffs, targetCount,
                   diffThreshold, selection, context, allocation, keyFrames,
                   promptTokens, utilization, finalUtilization, validation,
                   attempts, capture,
                   storage, history, recording>>

SelNext == SelectKeyFrames \/ SelectModelAlignedFrames \/ DropFramesForBudget

SpecSel == SelInit /\ [][SelNext]_vars

(* ============================ coverage harness =========================== *)
(* Applies ensureTemporalCoverage to every chronologically ordered selection *)
(* that holds both anchors, with every ceiling up to MaxCoverageCount.       *)
MaxCoverageCount == 6

\* the scored frames whose indices are the anchors or in the set interior
OrderedSelection(scored, interior) ==
    JsFilter(scored, [i \in 1..Len(scored) |->
                         i = 1 \/ i = Len(scored) \/ (i - 1) \in interior])

CovInit ==
    /\ pc = "input"
    /\ recording = NoRecording
    /\ \E n \in 1..MaxFrames :
          /\ frames = extractFrames(n)
          /\ diffs \in CaptureDiffInputs(n)
    /\ targetCount \in 0..MaxCoverageCount
    /\ diffThreshold = 3
    /\ profile \in {BuiltinProfiles[m] : m \in ModelNames}
    /\ selection = EmptySelection
    /\ keyFrames = <<>>
    /\ currentFrames = <<>>
    /\ lastInput = <<>>
    /\ dropTargets = <<>>
    /\ allocation = calculateBudgetAllocation(profile, 0)
    /\ utilization = calculateTokenUtilization(profile, <<>>, EmptyContext, 0)
    /\ finalUtilization = utilization
    /\ validation = validateBudget(utilization)
    /\ SelectorFrame

EnsureTemporalCoverage ==
    /\ pc = "input"
    /\ \E interior \in SUBSET (1..(Len(frames) - 2)) :
          \E scored \in {MarkAnchors(ScoreAllFrames(frames, diffs, profile))} :
             /\ lastInput' = OrderedSelection(scored, interior)
             /\ keyFrames' = ensureTemporalCoverage(lastInput', scored, targetCount)
    /\ currentFrames' = keyFrames'
    /\ pc' = "coverage-repaired"
    /\ UNCHANGED <<MODEL_PROFILES, options, profile, frames, diffs, targetCount,
                   diffThreshold, selection, context, allocation,
                   dropTargets, promptTokens, utilization, finalUtilization,
                   validation, attempts, capture,
                   storage, history, recording>>

CovNext == EnsureTemporalCoverage

SpecCoverage == CovInit /\ [][CovNext]_vars

(* ============================= scorer harness ============================ *)
(* Applies calculateEntropyScore to every frame of captures long enough for  *)
(* all three position bands to occur.                                        *)
MaxTotalFrames == 12

\* every pair of consecutive frames differs by the same percentage, or no
\* frame decodes
UniformDiffInputs(n) ==
    {[percent |-> [i \in 1..n |-> IF i = 1 THEN 0 ELSE v], undecodable |-> {}] :
        v \in DiffValues \cup {100}}
    \cup {[percent |-> [i \in 1..n |-> 0], undecodable |-> 0..(n - 1)]}

ScoreInit ==
    /\ pc = "input"
    /\ recording = NoRecording
    /\ \E n \in 1..MaxTotalFrames :
          /\ frames = extractFrames(n)
          /\ diffs \in UniformDiffInputs(n)
    /\ targetCount = 0
    /\ diffThreshold = 3
    /\ profile = BuiltinProfiles["claude-code"]
    /\ selection = EmptySelection
    /\ keyFrames = <<>>
    /\ currentFrames = <<>>
    /\ lastInput = <<>>
    /\ dropTargets = <<>>
    /\ allocation = calculateBudgetAllocation(profile, 0)
    /\ utilization = calculateTokenUtilization(profile, <<>>, EmptyContext, 0)
    /\ finalUtilization = utilization
    /\ validation = validateBudget(utilization)
    /\ SelectorFrame

\* the scoring loop of selectModelAlignedFrames at one frame
CalculateEntropyScore ==
    /\ pc = "input"
    /\ \E k \in 1..Len(frames) :
          /\ lastInput' = <<frames[k]>>
          /\ keyFrames' = <<ScoreAllFrames(frames, diffs, profile)[k]>>
    /\ pc' = "scored"
    /\ UNCHANGED <<MODEL_PROFILES, options, profile, frames, diffs, targetCount,
                   diffThreshold, selection, context, allocation, currentFrames,
                   dropTargets, promptTokens, utilization, finalUtilization,
                   validation, attempts, capture,
                   storage, history, recording>>

ScoreNext == CalculateEntropyScore

SpecScore == ScoreInit /\ [][ScoreNext]_vars

(* ============================= evictor harness =========================== *)
(* Applies dropFramesForBudget to every list of distinct scored frames, in   *)
(* any order, with every targetCount up to one more than the list holds.     *)
MaxEvictFrames == 4

\* the lists of pairwise distinct positions of 1..n
Arrangements(n) ==
    UNION {{a \in [1..k -> 1..n] : \A i, j \in 1..k : a[i] = a[j] => i = j} : k \in 0..n}

EvictInit ==
    /\ pc = "input"
    /\ recording = NoRecording
    /\ \E n \in 1..MaxEvictFrames :
          /\ frames = extractFrames(n)
          /\ diffs \in CaptureDiffInputs(n)
    /\ targetCount \in 0..(MaxEvictFrames + 1)
    /\ diffThreshold = 3
    /\ profile \in {BuiltinProfiles[m] : m \in ModelNames}
    /\ selection = EmptySelection
    /\ keyFrames = <<>>
    /\ currentFrames = <<>>
    /\ lastInput = <<>>
    /\ dropTargets = <<>>
    /\ allocation = calculateBudgetAllocation(profile, 0)
    /\ utilization = calculateTokenUtilization(profile, <<>>, EmptyContext, 0)
    /\ finalUtilization = utilization
    /\ validation = validateBudget(utilization)
    /\ SelectorFrame

EvictFrames ==
    /\ pc = "input"
    /\ \E scored \in {MarkAnchors(ScoreAllFrames(frames, diffs, profile))} :
       \E a \in Arrangements(Len(frames)) :
          /\ lastInput' = [i \in 1..Len(a) |-> scored[a[i]]]
          /\ currentFrames' = dropFramesForBudget(lastInput', targetCount)
    /\ dropTargets' = <<targetCount>>
    /\ pc' = "evicted"
    /\ UNCHANGED <<MODEL_PROFILES, options, profile, frames, diffs, targetCount,
                   diffThreshold, selection, context, allocation, keyFrames,
                   promptTokens, utilization, finalUtilization, validation,
                   attempts, capture, storage, history, recording>>

EvictNext == EvictFrames

SpecEvict == EvictInit /\ [][EvictNext]_vars

(* ============================ budget harness ============================= *)
(* Applies the allocator, the utilization calculator and the validator to    *)
(* every bounded input.                                                      *)
\* 400: a budget below the 500 tokens reserved for the report structure
BudgetValues == {400, 2000, 4000, 8000, 100000, 200000}

BudgetProfiles ==
    {[BuiltinProfiles[m] EXCEPT !.maxTokens = b] : m \in ModelNames, b \in BudgetValues}

TokenEstimates == {970, 1200}

PromptTokenValues == {137, 312}

\* contexts as the gatherer and the trimmers leave them: terminal estimate
\* capped at 400, git estimate capped at 200
ContextInputs ==
    {EmptyContext,
     [terminal |-> [lines |-> 50, tokenEstimate |-> 400],
      git      |-> [diffLines |-> 0, tokenEstimate |-> 0]],
     [terminal |-> [lines |-> 20, tokenEstimate |-> 400],
      git      |-> [diffLines |-> 80, tokenEstimate |-> 200]],
     [terminal |-> [lines |-> 0, tokenEstimate |-> 0],
      git      |-> [diffLines |-> 30, tokenEstimate |-> 120]]}

\* k scored frames whose tokenEstimate is t
FramesWithTokens(prof, k, t) ==
    LET fs     == extractFrames(k)
        scored == ScoreAllFrames(fs, IdenticalFrames(k), prof)
    IN  [i \in 1..k |-> [scored[i] EXCEPT !.tokenEstimate = t]]

BudInit ==
    /\ pc = "input"
    /\ recording = NoRecording
    /\ MODEL_PROFILES = BuiltinProfiles
    /\ options = NoOptions
    /\ profile \in BudgetProfiles
    /\ \E n \in 0..MaxFrames :
          /\ frames = extractFrames(n)
          /\ diffs = IdenticalFrames(n)
    /\ targetCount = 0
    /\ diffThreshold = 3
    /\ selection = EmptySelection
    /\ context \in ContextInputs
    /\ keyFrames = <<>>
    /\ \E k \in 0..MaxFrames, t \in TokenEstimates :
          currentFrames = FramesWithTokens(profile, k, t)
    /\ lastInput = <<>>
    /\ dropTargets = <<>>
    /\ promptTokens \in PromptTokenValues
    /\ allocation = calculateBudgetAllocation(BuiltinProfiles["claude-code"], 0)
    /\ utilization = calculateTokenUtilization(BuiltinProfiles["claude-code"],
                                               <<>>, EmptyContext, 0)
    /\ finalUtilization = utilization
    /\ validation = validateBudget(utilization)
    /\ attempts = 0
    /\ capture = NoCapture
    /\ storage = EmptyStorage
    /\ history = NoHistory

CalculateBudgetAllocation ==
    /\ pc = "input"
    /\ allocation' = calculateBudgetAllocation(profile, Len(frames))
    /\ pc' = "allocated"
    /\ UNCHANGED <<MODEL_PROFILES, options, profile, frames, diffs, targetCount,
                   diffThreshold, selection, context, keyFrames, currentFrames,
                   lastInput, dropTargets, promptTokens, utilization,
                   finalUtilization, validation, attempts, capture,
                   storage, history, recording>>

CalculateTokenUtilization ==
    /\ pc = "allocated"
    /\ utilization' = calculateTokenUtilization(profile, currentFrames, context,
                                                promptTokens)
    /\ pc' = "measured"
    /\ UNCHANGED <<MODEL_PROFILES, options, profile, frames, diffs, targetCount,
                   diffThreshold, selection, context, allocation, keyFrames,
                   currentFrames, lastInput, dropTargets, promptTokens,
                   finalUtilization, validation, attempts, capture,
                   storage, history, recording>>

ValidateBudget ==
    /\ pc = "measured"
    /\ validation' = validateBudget(utilization)
    /\ pc' = "validated"
    /\ UNCHANGED <<MODEL_PROFILES, options, profile, frames, diffs, targetCount,
                   diffThreshold, selection, context, allocation, keyFrames,
                   currentFrames, lastInput, dropTargets, promptTokens,
                   utilization, finalUtilization, attempts, capture,
                   storage, history, recording>>

BudNext == CalculateBudgetAllocation \/ CalculateTokenUtilization \/ ValidateBudget

SpecBudget == BudInit /\ [][BudNext]_vars

(* ============================ registry harness =========================== *)
(* Registers custom profiles and resolves names against the registry.       *)
MaxRegistered == 2

\* profiles a caller registers
CustomProfiles ==
    {Profile(name, maxTokens, 4, 6, ContextBias(50, 30, 20),
             PromptStyle("minimal", FALSE, FALSE, "medium")) :
        name \in {"custom", "GPT-4", "my_model.v2"}, maxTokens \in {8000, 16000}}

\* names a caller asks for
NameInputs ==
    ModelNames \cup
    {"Claude-Opus", "claude_sonnet", "CLAUDE CODE", "custom", "gpt-4", "GPT-4",
     "my_model.v2", "unknown", "", "constructor", "toString"}

RegInit ==
    /\ pc = "registry"
    /\ recording = NoRecording
    /\ MODEL_PROFILES = BuiltinProfiles
    /\ options = NoOptions
    /\ profile = BuiltinProfiles["claude-code"]
    /\ frames = <<>>
    /\ diffs = IdenticalFrames(0)
    /\ targetCount = 0
    /\ diffThreshold = 3
    /\ selection = EmptySelection
    /\ context = EmptyContext
    /\ allocation = calculateBudgetAllocation(profile, 0)
    /\ keyFrames = <<>>
    /\ currentFrames = <<>>
    /\ lastInput = <<>>
    /\ dropTargets = <<>>
    /\ promptTokens = 0
    /\ utilization = calculateTokenUtilization(profile, <<>>, EmptyContext, 0)
    /\ finalUtilization = utilization
    /\ validation = validateBudget(utilization)
    /\ attempts = 0
    /\ capture = NoCapture
    /\ storage = EmptyStorage
    /\ history = NoHistory

RegisterModelProfile ==
    /\ \E p \in CustomProfiles :
          /\ \/ toLowerCase(p.name) \in DOMAIN MODEL_PROFILES
             \/ Cardinality(DOMAIN MODEL_PROFILES)
                   < Cardinality(ModelNames) + MaxRegistered
          /\ MODEL_PROFILES' = registerModelProfile(MODEL_PROFILES, p)
          /\ profile' = p
    /\ pc' = "registered"
    /\ UNCHANGED <<options, frames, diffs, targetCount, diffThreshold, selection,
                   context, allocation, keyFrames, currentFrames, lastInput,
                   dropTargets, promptTokens, utilization, finalUtilization,
                   validation, attempts, capture,
                   storage, history, recording>>

GetModelProfile ==
    /\ \E name \in NameInputs :
          /\ options' = [model |-> name, overrideBudget |-> 0]
          /\ profile' = getModelProfile(MODEL_PROFILES, name)
    /\ pc' = "resolved"
    /\ UNCHANGED <<MODEL_PROFILES, frames, diffs, targetCount, diffThreshold,
                   selection, context, allocation, keyFrames, currentFrames,
                   lastInput, dropTargets, promptTokens, utilization,
                   finalUtilization, validation, attempts, capture,
                   storage, history, recording>>

RegNext == RegisterModelProfile \/ GetModelProfile

SpecReg == RegInit /\ [][RegNext]_vars

(* ============================ storage harness ============================ *)
\* The commands of cli.ts that touch the storage, in any order: a capture is
\* saved (temporary or not), a capture on disk is viewed or deleted, the
\* cleanup that precedes every command runs.
MaxSaves == 2
MaxExpired == 1
MaxDeletes == 1

\* A store that has been in use: capture 1 was saved with --temp and has not
\* been viewed, regular captures 2..IndexLimit were saved after it, so the
\* index is full and capture 1 is its oldest entry.
UsedStorage ==
    [captures |-> [i \in 1..IndexLimit |-> CaptureMetadata(IndexLimit + 1 - i, i = IndexLimit)],
     dirs     |-> 1..IndexLimit,
     nextId   |-> IndexLimit + 1]

StoreInit ==
    /\ pc = "storage"
    /\ recording = NoRecording
    /\ MODEL_PROFILES = BuiltinProfiles
    /\ options = NoOptions
    /\ profile = BuiltinProfiles["claude-code"]
    /\ frames = <<>>
    /\ diffs = IdenticalFrames(0)
    /\ targetCount = 0
    /\ diffThreshold = 3
    /\ selection = EmptySelection
    /\ context = EmptyContext
    /\ allocation = calculateBudgetAllocation(profile, 0)
    /\ keyFrames = <<>>
    /\ currentFrames = <<>>
    /\ lastInput = <<>>
    /\ dropTargets = <<>>
    /\ promptTokens = 0
    /\ utilization = calculateTokenUtilization(profile, <<>>, EmptyContext, 0)
    /\ finalUtilization = utilization
    /\ validation = validateBudget(utilization)
    /\ attempts = 0
    /\ capture = NoCapture
    /\ \/ storage = EmptyStorage /\ history = NoHistory
       \/ storage = UsedStorage /\ history = [NoHistory EXCEPT !.temp = {1}]

StoreFrame ==
    UNCHANGED <<MODEL_PROFILES, options, profile, frames, diffs, targetCount,
                diffThreshold, selection, context, allocation, keyFrames,
                currentFrames, lastInput, dropTargets, promptTokens,
                utilization, finalUtilization, validation, attempts, capture,
                recording>>

\* cli.ts: capture [--temp]
StoreSave ==
    /\ history.saves < MaxSaves
    /\ \E isTemp \in BOOLEAN :
          \E id \in {storage.nextId} :
             /\ storage' = saveCapture(storage, id, isTemp)
             /\ history' = [history EXCEPT !.temp = IF isTemp THEN @ \cup {id} ELSE @,
                                           !.saves = @ + 1,
                                           !.cleanedTemp = {}]
    /\ pc' = "saved"
    /\ StoreFrame

\* cli.ts: view <id>, getCapture finds the capture on disk
StoreView ==
    /\ \E id \in storage.dirs :
          /\ storage' = markCaptureViewed(storage, id)
          /\ history' = [history EXCEPT !.viewed = IF id \in history.temp THEN @ \cup {id} ELSE @,
                                        !.cleanedTemp = {}]
    /\ pc' = "viewed"
    /\ StoreFrame

\* cli.ts: delete --force <id>, getCapture finds the capture on disk.  The ids
\* given are those of the two oldest captures and of the captures saved since.
DeleteInputs(st) == {id \in st.dirs : id <= 2 \/ id >= IndexLimit}

StoreDelete ==
    /\ history.deletes < MaxDeletes
    /\ \E id \in DeleteInputs(storage) :
          /\ storage' = deleteCapture(storage, id)
          /\ history' = [history EXCEPT !.deletes = @ + 1,
                                        !.cleanedTemp = {}]
    /\ pc' = "deleted"
    /\ StoreFrame

\* cli.ts: the preAction hook
StoreCleanup ==
    /\ \E n \in 0..Min(Len(storage.captures), MaxExpired - Cardinality(history.expired)) :
          \E result \in {runCleanup(storage, n)} :
             /\ storage' = result.storage
             /\ history' = [history EXCEPT !.expired = @ \cup result.expired,
                                           !.cleanedTemp = result.temp]
    /\ pc' = "cleaned"
    /\ StoreFrame

StoreNext ==
    \/ StoreSave
    \/ StoreView
    \/ StoreDelete
    \/ StoreCleanup

SpecStore == StoreInit /\ [][StoreNext]_vars

(* ============================ recorder harness =========================== *)
\* startInteractiveRecording has returned its handle: ffmpeg runs, and the
\* caller's stop() calls, the child's 'close' event and the 3-second timers of
\* the stop() calls happen in any order.
MaxStops == 3

ExitCodes == {0, 1, 255}
Durations == {0, 5}

AlreadyStopped == [success |-> FALSE, duration |-> 0, error |-> "Recording already stopped"]

\* the value the 'close' listener resolves its promise with
CloseResult(code, outputExists, actualDuration) ==
    IF (code = 0 \/ code = 255) /\ outputExists
    THEN [success |-> TRUE, duration |-> actualDuration, error |-> ""]
    ELSE [success |-> FALSE, duration |-> 0, error |-> "Recording failed"]

Pending == [state |-> "pending", value |-> NoResult]
Fulfilled(result) == [state |-> "fulfilled", value |-> result]

RecInit ==
    /\ pc = "recording"
    /\ recording = [NoRecording EXCEPT !.ffmpeg = "running", !.stdin = "open"]
    /\ MODEL_PROFILES = BuiltinProfiles
    /\ options = NoOptions
    /\ profile = BuiltinProfiles["claude-code"]
    /\ frames = <<>>
    /\ diffs = IdenticalFrames(0)
    /\ targetCount = 0
    /\ diffThreshold = 3
    /\ selection = EmptySelection
    /\ context = EmptyContext
    /\ allocation = calculateBudgetAllocation(profile, 0)
    /\ keyFrames = <<>>
    /\ currentFrames = <<>>
    /\ lastInput = <<>>
    /\ dropTargets = <<>>
    /\ promptTokens = 0
    /\ utilization = calculateTokenUtilization(profile, <<>>, EmptyContext, 0)
    /\ finalUtilization = utilization
    /\ validation = validateBudget(utilization)
    /\ attempts = 0
    /\ capture = NoCapture
    /\ storage = EmptyStorage
    /\ history = NoHistory

RecFrame ==
    UNCHANGED <<MODEL_PROFILES, options, profile, frames, diffs, targetCount,
                diffThreshold, selection, context, allocation, keyFrames,
                currentFrames, lastInput, dropTargets, promptTokens,
                utilization, finalUtilization, validation, attempts, capture,
                storage, history>>

\* handle.stop(): the executor of the returned promise
Stop ==
    /\ Len(recording.promises) < MaxStops
    /\ \E call \in {Len(recording.promises) + 1} :
          IF recording.resolved
          THEN recording' = [recording EXCEPT
                                !.promises = Append(@, Fulfilled(AlreadyStopped))]
          ELSE recording' = [recording EXCEPT
                                !.listeners = @ \cup {call},
                                !.quit = @ \/ (recording.ffmpeg = "running"
                                               /\ recording.stdin = "open"),
                                !.stdin = "ended",
                                !.timers = @ \cup {call},
                                !.promises = Append(@, Pending)]
    /\ pc' = "stop-called"
    /\ RecFrame

\* the child process ends and emits 'close' once: the listeners registered
\* so far run, each resolving the promise of its stop() call
FfmpegClose ==
    /\ recording.ffmpeg = "running"
    /\ \E code \in ExitCodes, outputExists \in BOOLEAN, actualDuration \in Durations :
          recording' = [recording EXCEPT
                           !.ffmpeg = "closed",
                           !.resolved = @ \/ recording.listeners # {},
                           !.promises =
                               [call \in 1..Len(@) |->
                                   IF call \in recording.listeners
                                      /\ @[call].state = "pending"
                                   THEN Fulfilled(CloseResult(code, outputExists,
                                                              actualDuration))
                                   ELSE @[call]]]
    /\ pc' = "closed"
    /\ RecFrame

\* the setTimeout callback of one stop() call, 3 seconds after it
KillTimeout ==
    /\ \E call \in recording.timers :
          recording' = [recording EXCEPT
                           !.timers = @ \ {call},
                           !.killed = @ \/ (~recording.resolved
                                            /\ recording.ffmpeg = "running")]
    /\ pc' = "timed-out"
    /\ RecFrame

RecNext ==
    \/ Stop
    \/ FfmpegClose
    \/ KillTimeout

SpecRec == RecInit /\ [][RecNext]_vars

(* ====================== capture pipeline (runCaptureV2) ================== *)
OverrideBudgets == {0, 2000, 4000}

DefaultDuration == 30

MinFrames == 2

MaxAttempts == 5

\* part_011 optimizeKeyFramesV2: Math.ceil(85 + (pixels / 1000) * 1.5)
ImageTokenEstimate(width, height) ==
    CeilDiv(850000 + width * height * 15, 10000)

\* part_011 optimizeKeyFramesV2; failed is the set of positions whose image
\* could not be read or written (the frame is then passed on as it is)
optimizeKeyFramesV2(fs, failed, resolution) ==
    [i \in 1..Len(fs) |->
        IF i \in failed
        THEN [fs[i] EXCEPT !.optimizedPath = fs[i].path]
        ELSE [fs[i] EXCEPT
                 !.optimizedPath = "key_00" \o ToString(i) \o ".jpg",
                 !.tokenEstimate = ImageTokenEstimate(resolution.width,
                                                      resolution.height)]]

Digits(k) == IF k < 10 THEN 1 ELSE IF k < 100 THEN 2 ELSE 3

\* part_005 generateModelAlignedPrompt: length of the joined prompt text
PromptLength(style, keyFrameCount, duration, hasDiff) ==
    286
    + (IF style.includeTimelineRefs
       THEN 256 + 2 * Digits(keyFrameCount) + Digits(duration) ELSE 0)
    + (IF style.includeDiffCorrelation /\ hasDiff THEN 212 ELSE 0)
    + (IF style.causalFocusLevel = "high" THEN 163 ELSE 0)
    + (IF style.includeUncertaintyGuidance THEN 203 ELSE 0)
    + (IF style.verbosity = "detailed" THEN 122 ELSE 0)

\* part_005 estimatePromptTokens
estimatePromptTokens(length) == CeilDiv(length, 4)

\* variant of FirstFramesToDrop that rounds down
FirstFramesToDropRoundedDown(u, fs) == (Overage100(u) * Len(fs)) \div (100 * u.visual)

\* runCaptureV2: Math.ceil(overage / tokensPerFrame), for
\* tokensPerFrame = utilization.visual / currentFrames.length
FirstFramesToDrop(u, fs) == CeilDiv(Overage100(u) * Len(fs), 100 * u.visual)

\* variant of FirstTargetCount without Math.max(minFrames, ...)
FirstTargetCountNoFloor(u, fs) == Len(fs) - FirstFramesToDrop(u, fs)

\* runCaptureV2: targetFrameCount of the first eviction pass
FirstTargetCount(u, fs) == Max(MinFrames, Len(fs) - FirstFramesToDrop(u, fs))

\* variant of ShrinkLoopCondition without the minFrames floor
ShrinkLoopConditionNoFloor(u, fs, n) ==
    /\ ~validateBudget(u).valid
    /\ n < MaxAttempts

\* runCaptureV2: condition of the while loop
ShrinkLoopCondition(u, fs, n) ==
    /\ ~validateBudget(u).valid
    /\ Len(fs) > MinFrames
    /\ n < MaxAttempts

CapInit ==
    /\ pc = "idle"
    /\ recording = NoRecording
    /\ MODEL_PROFILES = BuiltinProfiles
    /\ options = NoOptions
    /\ profile = BuiltinProfiles["claude-code"]
    /\ frames = <<>>
    /\ diffs = IdenticalFrames(0)
    /\ targetCount = 0
    /\ diffThreshold = 3
    /\ selection = EmptySelection
    /\ context = EmptyContext
    /\ allocation = calculateBudgetAllocation(profile, 0)
    /\ keyFrames = <<>>
    /\ currentFrames = <<>>
    /\ lastInput = <<>>
    /\ dropTargets = <<>>
    /\ promptTokens = 0
    /\ utilization = calculateTokenUtilization(profile, <<>>, EmptyContext, 0)
    /\ finalUtilization = utilization
    /\ validation = validateBudget(utilization)
    /\ attempts = 0
    /\ capture = NoCapture
    /\ storage = EmptyStorage
    /\ history = NoHistory

\* stages 1-2: load the profile (the override is written into the registry's
\* own profile object), record, extract; an empty extraction throws
StartCaptureV2 ==
    /\ pc = "idle"
    /\ \E m \in ModelNames, b \in OverrideBudgets, n \in 0..MaxCaptureFrames :
          /\ options' = [model |-> m, overrideBudget |-> b]
          /\ MODEL_PROFILES' =
                IF b # 0
                THEN [MODEL_PROFILES EXCEPT
                         ![ResolvedName(MODEL_PROFILES, m)].maxTokens = b]
                ELSE MODEL_PROFILES
          /\ profile' = getModelProfile(MODEL_PROFILES', m)
          /\ frames' = extractFrames(n)
          /\ diffs' \in CaptureDiffInputs(n)
          /\ pc' = IF n = 0 THEN "failed" ELSE "extracted"
    /\ UNCHANGED <<targetCount, diffThreshold, selection, context, allocation,
                   keyFrames, currentFrames, lastInput, dropTargets,
                   promptTokens, utilization, finalUtilization, validation,
                   attempts, capture,
                   storage, history, recording>>

\* stages 3-4b: gather the context, allocate the budget, trim the context
AllocateBudget ==
    /\ pc = "extracted"
    /\ allocation' = calculateBudgetAllocation(profile, Len(frames))
    /\ context' \in ContextInputs
    /\ pc' = "allocated"
    /\ UNCHANGED <<MODEL_PROFILES, options, profile, frames, diffs, targetCount,
                   diffThreshold, selection, keyFrames, currentFrames,
                   lastInput, dropTargets, promptTokens, utilization,
                   finalUtilization, validation, attempts, capture,
                   storage, history, recording>>

\* stage 5
SelectFrames ==
    /\ pc = "allocated"
    /\ targetCount' = allocation.frameCount
    /\ keyFrames' = selectModelAlignedFrames(frames, diffs, profile,
                                             allocation.frameCount)
    /\ pc' = "selected"
    /\ UNCHANGED <<MODEL_PROFILES, options, profile, frames, diffs,
                   diffThreshold, selection, context, allocation,
                   currentFrames, lastInput, dropTargets, promptTokens,
                   utilization, finalUtilization, validation, attempts, capture,
                   storage, history, recording>>

\* stages 6-7: optimize, build the capture, generate the prompt
OptimizeFrames ==
    /\ pc = "selected"
    /\ \E failed \in SUBSET (1..Len(keyFrames)) :
          currentFrames' = optimizeKeyFramesV2(keyFrames, failed,
                                               allocation.frameResolution)
    /\ capture' = [duration  |-> DefaultDuration,
                   keyFrames |-> currentFrames',
                   metrics   |-> [totalFrames   |-> Len(frames),
                                  keyFrames     |-> Len(currentFrames'),
                                  tokenEstimate |-> 0],
                   promptFrameCount  |-> Len(currentFrames'),
                   reportUtilization |-> 0,
                   saved     |-> FALSE]
    /\ promptTokens' = estimatePromptTokens(
                          PromptLength(profile.promptStyle, Len(currentFrames'),
                                       DefaultDuration, context.git.diffLines > 0))
    /\ pc' = "optimized"
    /\ UNCHANGED <<MODEL_PROFILES, options, profile, frames, diffs, targetCount,
                   diffThreshold, selection, context, allocation, keyFrames,
                   lastInput, dropTargets, utilization, finalUtilization,
                   validation, attempts,
                   storage, history, recording>>

\* stage 8 and the first validateBudget call of stage 9
MeasureUtilization ==
    /\ pc = "optimized"
    /\ utilization' = calculateTokenUtilization(profile, currentFrames, context,
                                                promptTokens)
    /\ finalUtilization' = utilization'
    /\ validation' = validateBudget(utilization')
    /\ pc' = "validated"
    /\ UNCHANGED <<MODEL_PROFILES, options, profile, frames, diffs, targetCount,
                   diffThreshold, selection, context, allocation, keyFrames,
                   currentFrames, lastInput, dropTargets, promptTokens,
                   attempts, capture,
                   storage, history, recording>>

WithinBudget ==
    /\ pc = "validated"
    /\ validation.valid
    /\ pc' = "report"
    /\ UNCHANGED <<MODEL_PROFILES, options, profile, frames, diffs, targetCount,
                   diffThreshold, selection, context, allocation, keyFrames,
                   currentFrames, lastInput, dropTargets, promptTokens,
                   utilization, finalUtilization, validation, attempts, capture,
                   storage, history, recording>>

\* stage 9, over budget: the first eviction pass
FirstEviction ==
    /\ pc = "validated"
    /\ ~validation.valid
    /\ \E target \in {FirstTargetCount(utilization, currentFrames)} :
       \E trimmed \in {dropFramesForBudget(currentFrames, target)} :
          /\ lastInput' = currentFrames
          /\ dropTargets' = Append(dropTargets, target)
          /\ currentFrames' = trimmed
          /\ capture' = [capture EXCEPT !.keyFrames = trimmed,
                                        !.metrics.keyFrames = Len(trimmed)]
          /\ finalUtilization' = calculateTokenUtilization(profile, trimmed,
                                                           context, promptTokens)
    /\ attempts' = 0
    /\ pc' = "shrinking"
    /\ UNCHANGED <<MODEL_PROFILES, options, profile, frames, diffs, targetCount,
                   diffThreshold, selection, context, allocation, keyFrames,
                   promptTokens, utilization, validation,
                   storage, history, recording>>

\* one iteration of the while loop
ShrinkStep ==
    /\ pc = "shrinking"
    /\ ShrinkLoopCondition(finalUtilization, currentFrames, attempts)
    /\ attempts' = attempts + 1
    /\ \E newTargetCount \in {Len(currentFrames) - 1} :
       \E kept \in {dropFramesForBudget(currentFrames, newTargetCount)} :
          /\ lastInput' = currentFrames
          /\ dropTargets' = Append(dropTargets, newTargetCount)
          /\ currentFrames' = kept
          /\ capture' = [capture EXCEPT !.keyFrames = kept,
                                        !.metrics.keyFrames = Len(kept)]
          /\ finalUtilization' = calculateTokenUtilization(profile, kept,
                                                           context, promptTokens)
    /\ pc' = "shrinking"
    /\ UNCHANGED <<MODEL_PROFILES, options, profile, frames, diffs, targetCount,
                   diffThreshold, selection, context, allocation, keyFrames,
                   promptTokens, utilization, validation,
                   storage, history, recording>>

\* the while loop ends
ShrinkDone ==
    /\ pc = "shrinking"
    /\ ~ShrinkLoopCondition(finalUtilization, currentFrames, attempts)
    /\ pc' = "report"
    /\ UNCHANGED <<MODEL_PROFILES, options, profile, frames, diffs, targetCount,
                   diffThreshold, selection, context, allocation, keyFrames,
                   currentFrames, lastInput, dropTargets, promptTokens,
                   utilization, finalUtilization, validation, attempts, capture,
                   storage, history, recording>>

\* variant of ReportedUtilization that reports the first measurement
ReportedUtilizationFirstMeasured(first, final) == first

\* formatReportV2(capture, profile, finalUtilization, suggestedPrompt)
ReportedUtilization(first, final) == final

\* formatReportV2 with the final utilization, metrics.tokenEstimate update
GenerateReport ==
    /\ pc = "report"
    /\ capture' = [capture EXCEPT !.reportUtilization =
                                      ReportedUtilization(utilization, finalUtilization),
                                  !.metrics.tokenEstimate = finalUtilization.total]
    /\ pc' = "saving"
    /\ UNCHANGED <<MODEL_PROFILES, options, profile, frames, diffs, targetCount,
                   diffThreshold, selection, context, allocation, keyFrames,
                   currentFrames, lastInput, dropTargets, promptTokens,
                   utilization, finalUtilization, validation, attempts,
                   storage, history, recording>>

\* stage 10: saveCapture(capture, options.temporary || false).  The option is
\* read nowhere else, so its value is drawn here.
SaveCapture ==
    /\ pc = "saving"
    /\ capture' = [capture EXCEPT !.saved = TRUE]
    /\ \E temporary \in BOOLEAN :
          \E id \in {storage.nextId} :
             /\ storage' = saveCapture(storage, id, temporary)
             /\ history' = [history EXCEPT !.temp = IF temporary THEN @ \cup {id} ELSE @,
                                           !.saves = @ + 1]
    /\ pc' = "done"
    /\ UNCHANGED <<MODEL_PROFILES, options, profile, frames, diffs, targetCount,
                   diffThreshold, selection, context, allocation, keyFrames,
                   currentFrames, lastInput, dropTargets, promptTokens,
                   utilization, finalUtilization, validation, attempts,
                   recording>>

CapNext ==
    \/ StartCaptureV2
    \/ AllocateBudget
    \/ SelectFrames
    \/ OptimizeFrames
    \/ MeasureUtilization
    \/ WithinBudget
    \/ FirstEviction
    \/ ShrinkStep
    \/ ShrinkDone
    \/ GenerateReport
    \/ SaveCapture

SpecCap == CapInit /\ [][CapNext]_vars

\* Everything after the utilization has been computed is synchronous code of
\* runCaptureV2 (no await): once reached it runs to the return statement.
FairSpecCap ==
    /\ SpecCap
    /\ WF_vars(WithinBudget)
    /\ WF_vars(FirstEviction)
    /\ WF_vars(ShrinkStep)
    /\ WF_vars(ShrinkDone)
    /\ WF_vars(GenerateReport)
    /\ WF_vars(SaveCapture)

(* ================================ claims ================================= *)
Activated == {"allocated", "measured", "validated"}

NonDecreasing(idx) == \A i, j \in 1..Len(idx) : i < j => idx[i] <= idx[j]

Distinct(idx) == \A i, j \in 1..Len(idx) : i # j => idx[i] # idx[j]

LastIndex == Len(frames) - 1

AllTargetsAtLeast(k) == \A i \in 1..Len(dropTargets) : dropTargets[i] >= k

\* C1: after selectModelAlignedFrames on n >= 2 frames and any sequence of
\* dropFramesForBudget calls whose targetCount is always >= 2, the frames with
\* index 0 and index n-1 are both still in the frame set.
C1_AnchorsRetained ==
    (pc = "dropped" /\ Len(frames) >= 2 /\ AllTargetsAtLeast(2))
        => {0, LastIndex} \subseteq IndexSet(currentFrames)

C4_SelectionSpansCapture ==
    /\ pc = "threshold-selected" =>
          LET kf == selection.keyFrames
          IN  /\ kf # <<>>
              /\ NonDecreasing(Indices(kf))
              /\ kf[1].index = 0
              /\ kf[Len(kf)].index = LastIndex
    /\ pc = "model-selected" =>
          /\ keyFrames # <<>>
          /\ NonDecreasing(Indices(keyFrames))
          /\ keyFrames[1].index = 0
          /\ keyFrames[Len(keyFrames)].index = LastIndex

\* the model-aware selector returned interior frames whose ranking by
\* reasoningValue is not their chronological order
C4_Witness ==
    /\ pc = "model-selected"
    /\ Len(keyFrames) >= 4
    /\ \E i, j \in 2..(Len(keyFrames) - 1) :
          /\ i < j
          /\ keyFrames[i].reasoningValue < keyFrames[j].reasoningValue

\* C5: in the sequence returned by selectModelAlignedFrames, and after any
\* number of dropFramesForBudget calls with targetCount >= 1, the first and
\* the last element both have dropPriority = 0.
C5_EndsHaveZeroPriority ==
    (pc \in {"model-selected", "dropped"} /\ AllTargetsAtLeast(1))
        => /\ currentFrames # <<>>
           /\ currentFrames[1].dropPriority = 0
           /\ currentFrames[Len(currentFrames)].dropPriority = 0

\* two evictions later the list has lost frames and still ends in a frame of
\* dropPriority 0
C5_Witness ==
    /\ pc = "dropped"
    /\ AllTargetsAtLeast(1)
    /\ Len(dropTargets) >= 2
    /\ Len(currentFrames) >= 2
    /\ Len(currentFrames) < Len(keyFrames)
    /\ currentFrames[Len(currentFrames)].dropPriority = 0

\* C6: with 1 <= len(frames) <= targetCount, selectKeyFrames returns exactly
\* len(frames) key frames in the original order, each with the index, path and
\* timestamp of the input frame at that position, and totalExtracted =
\* len(frames).
C6_AllFramesReturned ==
    (pc = "threshold-selected" /\ Len(frames) >= 1 /\ Len(frames) <= targetCount)
        => /\ Len(selection.keyFrames) = Len(frames)
           /\ \A i \in 1..Len(frames) :
                 /\ selection.keyFrames[i].index = frames[i].index
                 /\ selection.keyFrames[i].path = frames[i].path
                 /\ selection.keyFrames[i].timestamp = frames[i].timestamp
           /\ selection.totalExtracted = Len(frames)

\* three frames, room for four: all three came back
C6_Witness ==
    /\ pc = "threshold-selected"
    /\ Len(frames) = 3
    /\ targetCount = 4
    /\ Indices(selection.keyFrames) = <<0, 1, 2>>

NoInteriorAboveThreshold ==
    \A i \in 1..(Len(frames) - 2) : calculateFrameDiff(diffs, i) < diffThreshold

\* C7: with len(frames) > targetCount >= 2 and no interior frame at or above
\* diffThreshold, selectKeyFrames returns exactly targetCount frames with
\* distinct indices, including index 0 and index len(frames)-1.
C7_EvenlySpacedFallback ==
    (pc = "threshold-selected" /\ Len(frames) > targetCount /\ targetCount >= 2
        /\ NoInteriorAboveThreshold)
        => /\ Len(selection.keyFrames) = targetCount
           /\ Distinct(Indices(selection.keyFrames))
           /\ {0, LastIndex} \subseteq IndexSet(selection.keyFrames)

\* identical frames, more than wanted: the fill loop supplied the interior
C7_Witness ==
    /\ pc = "threshold-selected"
    /\ Len(frames) = MaxFrames
    /\ targetCount = 4
    /\ diffs = IdenticalFrames(Len(frames))
    /\ Len(selection.keyFrames) = 4

\* C3: for every non-empty frame array and the targetCount the pipeline
\* passes (allocation.frameCount), selectModelAlignedFrames returns at most
\* targetCount frames and no two returned frames have the same index.
C3_WithinTargetNoDuplicates ==
    pc = "selected"
        => /\ Len(keyFrames) <= allocation.frameCount
           /\ Distinct(Indices(keyFrames))

\* C8: validateBudget(u).valid is true exactly when u.utilization <= 95; when
\* it is true the suggestions list is empty; when it is false and
\* u.breakdown.frames.count > 4 the suggestions list is non-empty.
C8_ValidateBudget ==
    pc = "validated"
        => /\ validation.valid
                <=> (utilization.utilization.num <= 95 * utilization.utilization.den)
           /\ validation.valid => validation.suggestions = <<>>
           /\ (~validation.valid /\ utilization.breakdown.frames.count > 4)
                => validation.suggestions # <<>>

\* over budget with five or more frames and nothing else to suggest
C8_Witness ==
    /\ pc = "validated"
    /\ ~validation.valid
    /\ utilization.breakdown.frames.count > 4
    /\ Len(validation.suggestions) = 1

\* floor(visualBudget / imageTokenEstimate) for
\* visualBudget = (0.95 * maxTokens - 500) * contextBias.visual
FramesInVisualBudget(prof) ==
    ((95 * prof.maxTokens - 50000) * prof.contextBias.visual)
        \div (10000 * prof.imageTokenEstimate)

\* C9: calculateBudgetAllocation returns frameCount <= preferredFrames and
\* frameCount <= availableFrameCount; when frameQuality stays 85, frameCount
\* is min(floor(visualBudget / imageTokenEstimate), preferredFrames,
\* availableFrameCount).
C9_FrameCountFormula ==
    pc \in Activated
        => /\ allocation.frameCount <= profile.preferredFrames
           /\ allocation.frameCount <= Len(frames)
           /\ allocation.frameQuality = 85
                => \E c \in {FramesInVisualBudget(profile), profile.preferredFrames,
                             Len(frames)} :
                      /\ allocation.frameCount = c
                      /\ c <= FramesInVisualBudget(profile)
                      /\ c <= profile.preferredFrames
                      /\ c <= Len(frames)

\* the visual budget, not the profile or the capture, bounds the frame count
\* and the quality stays 85
C9_Witness ==
    /\ pc \in Activated
    /\ allocation.frameQuality = 85
    /\ allocation.frameCount = FramesInVisualBudget(profile)
    /\ allocation.frameCount >= 1
    /\ allocation.frameCount < profile.preferredFrames
    /\ allocation.frameCount < Len(frames)

C11_ProfilesRequestScoped ==
    pc = "done"
        => \A m \in ModelNames :
              getModelProfile(MODEL_PROFILES, m).maxTokens = BuiltinProfiles[m].maxTokens

\* interior frames (0-based index) whose image, or whose predecessor's image,
\* cannot be decoded
UndecodableInterior ==
    {i \in 1..(Len(frames) - 2) : (i - 1) \in diffs.undecodable \/ i \in diffs.undecodable}

C13_UnknownNameGetsDefault ==
    (pc = "resolved" /\ NormalizedName(options.model) \notin DOMAIN MODEL_PROFILES)
        => profile = MODEL_PROFILES["claude-code"]

\* C14: a cleanup never deletes a temporary capture that has not been viewed
\* (unless its TTL expired), the first cleanup after the first view of a
\* temporary capture deletes it, and the temp pass of a cleanup never deletes a
\* capture saved without --temp.
KeptUntilViewed ==
    \A id \in history.temp \ history.viewed :
        (id \in storage.dirs /\ id \notin history'.expired) => id \in storage'.dirs
DeletedAfterView == \A id \in history.temp \cap history.viewed : id \notin storage'.dirs
OnlyTempDeleted == history'.cleanedTemp \subseteq history.temp
C14_TempCaptureLifecycle ==
    [][pc' = "cleaned" => KeptUntilViewed /\ DeletedAfterView /\ OnlyTempDeleted]_vars
C14_KeptAndOnlyTemp == [][pc' = "cleaned" => KeptUntilViewed /\ OnlyTempDeleted]_vars

\* C15: when ensureTemporalCoverage returns, either the ceiling maxCount has
\* been reached or no two consecutive result frames are more than a quarter
\* of the capture apart with an unselected frame between them.
OversizedGaps(result, total) ==
    {k \in 1..(Len(result) - 1) :
        /\ 4 * (result[k + 1].index - result[k].index) > total
        /\ \E j \in (result[k].index + 1)..(result[k + 1].index - 1) : j \notin IndexSet(result)}
DistinctIndices(kf) == \A a, b \in 1..Len(kf) : kf[a].index = kf[b].index => a = b
C16_FillReachesTargetCount ==
    (pc = "threshold-selected" /\ Len(frames) > targetCount /\ targetCount >= 2)
        => /\ Len(selection.keyFrames) = targetCount
           /\ DistinctIndices(selection.keyFrames)
C16_NeverAboveTargetCount ==
    (pc = "threshold-selected" /\ Len(frames) > targetCount /\ targetCount >= 2)
        => /\ Len(selection.keyFrames) <= targetCount
           /\ DistinctIndices(selection.keyFrames)

\* floor(visualBudget / (0.85 * imageTokenEstimate))
FramesInReducedBudget(prof) ==
    ((95 * prof.maxTokens - 50000) * prof.contextBias.visual)
        \div (8500 * prof.imageTokenEstimate)

\* the frame count at quality 85
Quality85Count(prof, availableFrames) ==
    Min3(FramesInVisualBudget(prof), prof.preferredFrames, availableFrames)

\* C17: calculateBudgetAllocation returns frameQuality 85 or 75; it is 75
\* exactly when the quality-85 frame count is below preferredFrames and below
\* the available frame count and floor(visualBudget / (0.85 *
\* imageTokenEstimate)) is larger than that count; with quality 75 the
\* returned frameCount is larger than the quality-85 count.
C17_SingleQualityStep ==
    pc \in Activated
        => LET count85 == Quality85Count(profile, Len(frames))
           IN  /\ allocation.frameQuality \in {85, 75}
               /\ allocation.frameQuality = 75
                    <=> /\ count85 < profile.preferredFrames
                        /\ count85 < Len(frames)
                        /\ FramesInReducedBudget(profile) > count85
               /\ allocation.frameQuality = 75 => allocation.frameCount > count85

\* the reduced quality admits one more frame than the budget does at quality 85
C17_Witness ==
    /\ pc \in Activated
    /\ allocation.frameQuality = 75
    /\ allocation.frameCount = Quality85Count(profile, Len(frames)) + 1
    /\ allocation.frameCount >= 2

TruncateTerminal == "Truncate terminal context to error lines only"

Suggested(text) == \E k \in 1..Len(validation.suggestions) : validation.suggestions[k] = text

\* C18: when validateBudget reports an invalid utilization, the suggestion to
\* truncate the terminal context is included exactly when the token cost of
\* the terminal context itself, breakdown.terminalContext.tokens, exceeds 500.
C18_TruncateOnTerminalTokens ==
    (pc = "validated" /\ ~validation.valid)
        => (Suggested(TruncateTerminal)
              <=> utilization.breakdown.terminalContext.tokens > 500)

\* C18 as the code has it: the suggestion is included exactly when the text
\* tokens, terminal context plus git context, exceed 500.
C18_TruncateOnTextTokens ==
    (pc = "validated" /\ ~validation.valid)
        => (Suggested(TruncateTerminal)
              <=> utilization.breakdown.terminalContext.tokens
                    + utilization.breakdown.gitContext.tokens > 500)

\* over budget, the terminal context alone is below 500 tokens, the git
\* context lifts the text above 500, and the suggestion is made
C18_Witness ==
    /\ pc = "validated"
    /\ ~validation.valid
    /\ utilization.breakdown.terminalContext.tokens <= 500
    /\ utilization.text > 500
    /\ Suggested(TruncateTerminal)

\* C19: when runCaptureV2 returns, the utilization written to the report was
\* computed from the final frame set: its frame count is the number of key
\* frames of the capture and capture.metrics.keyFrames, and
\* capture.metrics.tokenEstimate is its total, the token estimates of the
\* final frames plus terminal tokens, git tokens, 100 and the prompt tokens.
C19_ReportUsesFinalFrames ==
    pc = "done"
        => LET reported == capture.reportUtilization
               finalFrames == capture.keyFrames
           IN  /\ reported.breakdown.frames.count = Len(finalFrames)
               /\ reported.breakdown.frames.count = capture.metrics.keyFrames
               /\ capture.metrics.tokenEstimate = reported.total
               /\ reported.total =
                      SumSeq([i \in 1..Len(finalFrames) |-> finalFrames[i].tokenEstimate])
                          + context.terminal.tokenEstimate + context.git.tokenEstimate
                          + 100 + promptTokens

\* a capture returned after frames were evicted
C19_Witness ==
    /\ pc = "done"
    /\ dropTargets # <<>>
    /\ Len(capture.keyFrames) < Len(keyFrames)
    /\ capture.reportUtilization.total < utilization.total

\* C20: for every frame of a capture at most one of the three position
\* bonuses of calculateEntropyScore applies, the score before the clamp lies
\* between 0.5 and 1.0, and the clamp returns it unchanged.
C20_EntropyScoreInRange ==
    pc = "scored"
        => LET frame  == lastInput[1]
               total  == Len(frames)
               bands  == {b \in {"early", "late", "middle"} :
                            \/ b = "early" /\ 10 * frame.index < total
                            \/ b = "late" /\ 10 * frame.index > 9 * total
                            \/ b = "middle" /\ 10 * frame.index > 4 * total
                                            /\ 10 * frame.index < 6 * total}
               before == EntropyBeforeClamp(frame, frame.index > 0, diffs, total)
           IN  /\ Cardinality(bands) <= 1
               /\ PositionBonus(frame.index, total)
                     = (IF bands = {} THEN 0 ELSE IF bands = {"middle"} THEN 10 ELSE 20)
               /\ before >= 50
               /\ before <= 100
               /\ keyFrames[1].entropyScore = before

\* a frame of the last tenth that differs by 30% or more from its predecessor
\* scores exactly 1.0
C20_Witness ==
    /\ pc = "scored"
    /\ 10 * lastInput[1].index > 9 * Len(frames)
    /\ calculateFrameDiff(diffs, lastInput[1].index) >= 30
    /\ keyFrames[1].entropyScore = 100

\* what C21 says of a call in every case: the frames come from the input and
\* every removed frame has a dropPriority at least that of every kept frame
KeptFromInput ==
    \A j \in 1..Len(currentFrames) : \E i \in 1..Len(lastInput) : currentFrames[j] = lastInput[i]
RemovedNotBelowKept ==
    \A i \in 1..Len(lastInput) :
        lastInput[i].index \notin IndexSet(currentFrames)
            => \A j \in 1..Len(currentFrames) :
                  lastInput[i].dropPriority >= currentFrames[j].dropPriority
Ascending(s) == \A i \in 1..(Len(s) - 1) : s[i] < s[i + 1]

ShrinkingOrLater == {"shrinking", "report", "saving", "done"}

\* C22: each iteration of the shrink loop of runCaptureV2 removes exactly one
\* frame, and the frame count never falls below min(initial frame count, 2),
\* whatever the overage is.  (capture.promptFrameCount is the frame count
\* before the first eviction.)
C22_OneFramePerIteration ==
    /\ [][(pc = "shrinking" /\ pc' = "shrinking")
            => /\ Len(currentFrames') = Len(currentFrames) - 1
               /\ Len(capture'.keyFrames) = Len(capture.keyFrames) - 1
               /\ capture'.metrics.keyFrames = capture.metrics.keyFrames - 1]_vars
    /\ [](pc \in ShrinkingOrLater
            => /\ Len(currentFrames) >= Min(capture.promptFrameCount, MinFrames)
               /\ Len(capture.keyFrames) >= Min(capture.promptFrameCount, MinFrames))

\* the loop has just removed one frame after the first eviction pass
C22_Witness ==
    /\ pc = "shrinking"
    /\ attempts = 1
    /\ Len(currentFrames) = Len(lastInput) - 1
    /\ Len(currentFrames) >= MinFrames

\* C23: in the output of selectModelAlignedFrames for n >= 2 frames a frame
\* has dropPriority 0 exactly when it is the first or the last frame of the
\* capture; every interior frame has dropPriority = 1 - reasoningValue > 0.
C23_ZeroPriorityMarksAnchors ==
    (pc = "model-selected" /\ Len(frames) >= 2)
        => \A k \in 1..Len(keyFrames) :
              /\ keyFrames[k].dropPriority = 0 <=> keyFrames[k].index \in {0, LastIndex}
              /\ keyFrames[k].index \notin {0, LastIndex}
                    => /\ keyFrames[k].dropPriority = One - keyFrames[k].reasoningValue
                       /\ keyFrames[k].dropPriority > 0

\* C24: inside selectModelAlignedFrames the coverage repair inserts nothing:
\* for n >= 2 frames and every targetCount the frames returned are the
\* anchors plus the ranked interior frames, as selected before the repair.
C24_RepairInsertsNothing ==
    (pc = "model-selected" /\ Len(frames) >= 2)
        => keyFrames = AnchorsAndCandidates(MarkAnchors(ScoreAllFrames(frames, diffs, profile)),
                                            targetCount)

\* every frame is selected and each gap of one frame is above a quarter of
\* the capture: the repair loop looks for a frame to insert and finds none
C24_Witness ==
    /\ pc = "model-selected"
    /\ Len(frames) = 3
    /\ targetCount = 4
    /\ Len(keyFrames) = 3
    /\ OversizedGaps(keyFrames, Len(frames)) = {}

UniformTokens(fs) == \A i, j \in 1..Len(fs) : fs[i].tokenEstimate = fs[j].tokenEstimate

\* C25: when the first measurement is over budget, every frame costs the
\* same t > 0 tokens and len - ceil(overage / t) >= 2, the utilization
\* recomputed after the first eviction pass is valid and the shrink loop does
\* not iterate.  (Just after the first pass lastInput is the list it was
\* given.)
C25_OnePassSuffices ==
    (/\ pc = "shrinking"
     /\ attempts = 0
     /\ Len(dropTargets) = 1
     /\ lastInput # <<>>
     /\ UniformTokens(lastInput)
     /\ lastInput[1].tokenEstimate > 0
     /\ Len(lastInput) - CeilDiv(Overage100(utilization), 100 * lastInput[1].tokenEstimate) >= 2)
        => /\ validateBudget(finalUtilization).valid
           /\ ~ShrinkLoopCondition(finalUtilization, currentFrames, attempts)
           /\ Len(currentFrames) = Len(lastInput)
                 - CeilDiv(Overage100(utilization), 100 * lastInput[1].tokenEstimate)

\* uniform frames, two or more of them evicted by the first pass, at least
\* two left
C25_Witness ==
    /\ pc = "shrinking"
    /\ attempts = 0
    /\ Len(dropTargets) = 1
    /\ Len(lastInput) >= 4
    /\ UniformTokens(lastInput)
    /\ Len(currentFrames) <= Len(lastInput) - 2
    /\ Len(currentFrames) = Len(lastInput)
          - CeilDiv(Overage100(utilization), 100 * lastInput[1].tokenEstimate)
    /\ validateBudget(finalUtilization).valid

\* C26: after registerModelProfile(p), getModelProfile(p.name) returns p, for
\* names made of letters, digits, dots and underscores in any case.
C26_RegistryRoundTrip ==
    pc = "registered" => getModelProfile(MODEL_PROFILES, profile.name) = profile

\* C27: for maxTokens >= 1, imageTokenEstimate >= 1, biases in [0,1] and any
\* available frame count, calculateBudgetAllocation returns frameCount >= 0,
\* terminalLines in 0..100 and gitDiffLines in 0..150.
C27_NoNegativeCounts ==
    (pc \in Activated /\ profile.maxTokens >= 1 /\ profile.imageTokenEstimate >= 1)
        => /\ allocation.frameCount >= 0
           /\ allocation.terminalLines \in 0..100
           /\ allocation.gitDiffLines \in 0..150

\* C28: the frame count stated in the suggested prompt ("The capture contains
\* N key frames", "Frame N shows the final failure state") is
\* capture.metrics.keyFrames of the finished capture, also when the budget
\* loop evicted frames after the prompt was generated.
C28_PromptStatesFinalFrameCount ==
    pc \in {"report", "saving", "done"}
        => capture.promptFrameCount = capture.metrics.keyFrames

\* C29: after any sequence of saveCapture, deleteCapture and cleanup, every
\* capture directory on disk has an entry in the metadata index, and the
\* index has at most 100 entries.
IndexedIds(st) == {st.captures[i].id : i \in 1..Len(st.captures)}
C29_IndexCoversDisk ==
    /\ storage.dirs \subseteq IndexedIds(storage)
    /\ Len(storage.captures) <= IndexLimit

\* C30: every stop() call on the handle of startInteractiveRecording resolves
\* with a RecordingResult, whatever the order of the ffmpeg 'close' event and
\* the stop() calls: once ffmpeg has closed and every kill timer has run,
\* nothing can resolve a promise any more, so none is left pending then.
Quiescent == recording.ffmpeg = "closed" /\ recording.timers = {}
C30_EveryStopResolves ==
    Quiescent
        => \A call \in 1..Len(recording.promises) :
              recording.promises[call].state = "fulfilled"

====
